---- MODULE Spec2Model ----
(***************************************************************************)
(* Query-state synchronisation and fetch orchestration of the character    *)
(* list page (src/src/pages/index.tsx, the server-filtered Home component  *)
(* with pagination, lines 295-622) together with the catalog client        *)
(* (src/src/services/api.ts).  The earlier Home component of the same    *)
(* file, which filters the fetched list on the client (lines 52-114), is   *)
(* modelled at the end; it uses allCharacters and filteredCharacters,      *)
(* which the paginated component leaves empty.                             *)
(*                                                                         *)
(* A query string / URLSearchParams object is a function from a subset of  *)
(* page, status, gender, name to values; the page value is a sequence of  *)
(* characters, as produced by Number.prototype.toString and read back by   *)
(* parseInt.                                                               *)
(***************************************************************************)
EXTENDS Integers, Sequences, FiniteSets

VARIABLES
    phase,        \* "loading" (server render pending), "mounted", "disposed"
    status,       \* useState status            (index.tsx:352)
    gender,       \* useState gender            (index.tsx:353)
    searchTerm,   \* useState searchTerm        (index.tsx:354)
    currentPage,  \* prop currentPage           (index.tsx:350)
    pages,        \* prop initialData.info.pages
    characters,   \* useState characters        (index.tsx:351)
    isLoading,    \* useState isLoading         (index.tsx:355)
    url,          \* router.query, the query string of the address bar
    nav,          \* pending full (non-shallow) navigation: <<>> or <<target>>
    timers,       \* armed lodash debounce timers, each with its closure
    inflight,     \* getCharacters calls awaiting their response, issue order
    newest,       \* the most recently issued client fetch and its outcome
    edits,        \* number of setter calls since initialisation
    fetches,      \* number of client fetches issued
    event,        \* what the last handler run did
    allCharacters,      \* useState allCharacters      (index.tsx:53)
    filteredCharacters  \* useState filteredCharacters (index.tsx:54)

vars == <<phase, status, gender, searchTerm, currentPage, pages, characters,
          isLoading, url, nav, timers, inflight, newest, edits, fetches,
          event, allCharacters, filteredCharacters>>

----------------------------------------------------------------------------
(* Bounds of the model *)

\* largest page count the catalog service reports
MaxPages == 2
\* how far below page 1 the page buttons are followed
MaxBelow == 1
\* client fetches that may be awaiting a response at once
MaxInFlight == 2
\* setter calls (filter edits and page clicks) followed
MaxEdits == 2
\* client fetches followed
MaxFetches == 2

----------------------------------------------------------------------------
(* Values *)

\* <option> values of the status select, the gender select, and search texts
StatusOptions == {"", "alive"}
GenderOptions == {"", "male"}
SearchTerms == {"", "rick"}

Opt(S) == {<<>>} \cup {<<x>> : x \in S}

\* the object literal / query string holding exactly the given optional keys
MkQuery(p, s, g, n) ==
    LET keys == (IF p # <<>> THEN {"page"} ELSE {})
                \cup (IF s # <<>> THEN {"status"} ELSE {})
                \cup (IF g # <<>> THEN {"gender"} ELSE {})
                \cup (IF n # <<>> THEN {"name"} ELSE {})
    IN  [k \in keys |-> CASE k = "page" -> p[1]
                          [] k = "status" -> s[1]
                          [] k = "gender" -> g[1]
                          [] OTHER -> n[1]]

\* a JavaScript string used as a condition is true unless it is empty
Truthy(s) == s # ""

DigitChars == <<"0", "1", "2", "3", "4", "5", "6", "7", "8", "9">>

IsDigit(c) == \E d \in 1..10 : DigitChars[d] = c

DigitValue(c) == (CHOOSE d \in 1..10 : DigitChars[d] = c) - 1

RECURSIVE ToString(_)
\* Number.prototype.toString of an integer
ToString(n) ==
    IF n < 0 THEN <<"-">> \o ToString(0 - n)
    ELSE IF n < 10 THEN <<DigitChars[n + 1]>>
    ELSE ToString(n \div 10) \o <<DigitChars[(n % 10) + 1]>>

RECURSIVE ParseDigits(_, _)
ParseDigits(s, acc) ==
    IF s = <<>> \/ ~IsDigit(Head(s)) THEN acc
    ELSE ParseDigits(Tail(s), acc * 10 + DigitValue(Head(s)))

\* parseInt of a string that starts with an optional sign and a digit
ParseInt(s) ==
    IF s # <<>> /\ Head(s) = "-" THEN 0 - ParseDigits(Tail(s), 0)
    ELSE ParseDigits(s, 0)

----------------------------------------------------------------------------
(* Catalog client: src/src/services/api.ts *)

\* getCharacters with every filter appended, empty or not
GetCharactersParamsNoGuard(page, filters) ==
    MkQuery(<<ToString(page)>>, <<filters.status>>, <<filters.gender>>,
            <<filters.name>>)

\* the URLSearchParams getCharacters sends
GetCharactersParams(page, filters) ==
    MkQuery(<<ToString(page)>>,
            IF Truthy(filters.status) THEN <<filters.status>> ELSE <<>>,
            IF Truthy(filters.gender) THEN <<filters.gender>> ELSE <<>>,
            IF Truthy(filters.name) THEN <<filters.name>> ELSE <<>>)

\* the Character[] the service returns for a request, identified by the request
ResultsOf(params) == <<params>>

\* page counts a successful response to a request for `page` may report
ServicePages(page) == {n \in 1..MaxPages : page <= n}

\* outcomes of a getCharacters call: the ApiResponse, or a thrown error
Responses(page, params) ==
    {[ok |-> FALSE, pages |-> 0, results |-> <<>>]}
    \cup {[ok |-> TRUE, pages |-> n, results |-> ResultsOf(params)] :
            n \in ServicePages(page)}

----------------------------------------------------------------------------
(* Server side: getServerSideProps, index.tsx:585-620 *)

\* a context.query read that never finds its key
QueryStringDefault(query, k, default) == default

\* context.query values that are strings; an absent key is not a string
QueryString(query, k, default) == IF k \in DOMAIN query THEN query[k] ELSE default

\* the request getServerSideProps sends for a query string
ServerRequest(query) ==
    LET page == IF "page" \in DOMAIN query THEN ParseInt(query["page"]) ELSE 1
        filters == [status |-> QueryString(query, "status", ""),
                    gender |-> QueryString(query, "gender", ""),
                    name |-> QueryString(query, "name", "")]
    IN  [page |-> page, filters |-> filters,
         q |-> [page |-> page, status |-> filters.status,
                gender |-> filters.gender, name |-> filters.name],
         params |-> GetCharactersParams(page, filters)]

\* the props getServerSideProps returns, given the service's response
GetServerSideProps(query, resp) ==
    LET req == ServerRequest(query)
    IN  IF resp.ok
        THEN [initialData |-> [pages |-> resp.pages, results |-> resp.results],
              initialStatus |-> req.filters.status,
              initialGender |-> req.filters.gender,
              initialName |-> req.filters.name,
              currentPage |-> req.page]
        ELSE [initialData |-> [pages |-> 0, results |-> <<>>],
              initialStatus |-> "",
              initialGender |-> "",
              initialName |-> "",
              currentPage |-> 1]

----------------------------------------------------------------------------
(* Client side: Home, index.tsx:350-409 *)

\* the values a handleFilter instance closes over
Closure(p, s, g, n) == [page |-> p, status |-> s, gender |-> g, name |-> n]

\* the getCharacters call of handleFilter, line 367
ParamsOf(q) ==
    GetCharactersParams(q.page, [status |-> q.status, gender |-> q.gender,
                                 name |-> q.name])

\* query object of the shallow router.push in handleFilter
PushQuery(q) ==
    MkQuery(<<ToString(q.page)>>,
            IF Truthy(q.status) THEN <<q.status>> ELSE <<>>,
            IF Truthy(q.gender) THEN <<q.gender>> ELSE <<>>,
            IF Truthy(q.name) THEN <<q.name>> ELSE <<>>)

\* query object of the router.push in handlePageChange
PageQuery(query, newPage) ==
    [k \in DOMAIN query \cup {"page"} |->
        IF k = "page" THEN ToString(newPage) ELSE query[k]]

\* an effect cleanup that cancels nothing
CancelNothing(ts) == ts

\* debouncedFilter.cancel() of the instance the running effect called
Cancel(ts) == {t \in ts : ~t.current}

\* debouncedFilter() of a freshly created debounce instance
Arm(ts, q) == {[t EXCEPT !.current = FALSE] : t \in ts}
              \cup {[q |-> q, current |-> TRUE]}

\* the effect of lines 394-399 re-running: cleanup, then the new call
RunEffect(ts, q) == Arm(Cancel(ts), q)

\* whether a route change hands useRouter() a new router object
RouterIdentityChanges == BOOLEAN

NoEvent == [type |-> "none", ok |-> FALSE, newest |-> FALSE, push |-> FALSE,
            request |-> <<>>]

\* query strings a visitor opens the page with
InitialUrls ==
    {MkQuery(p, s, <<>>, <<>>) : p \in Opt({<<"0">>, <<"2">>}),
                                 s \in Opt(StatusOptions)}

Init ==
    /\ phase = "loading"
    /\ url \in InitialUrls
    /\ status = ""
    /\ gender = ""
    /\ searchTerm = ""
    /\ currentPage = 1
    /\ pages = 0
    /\ characters = <<>>
    /\ isLoading = FALSE
    /\ nav = <<>>
    /\ timers = {}
    /\ inflight = <<>>
    /\ newest = [outcome |-> "none", q |-> Closure(1, "", "", "")]
    /\ edits = 0
    /\ fetches = 0
    /\ event = NoEvent
    /\ allCharacters = <<>>
    /\ filteredCharacters = <<>>

\* state initialisers of Home on its first render
MountState(props) ==
    [status |-> props.initialStatus, gender |-> props.initialGender,
     searchTerm |-> props.initialName, characters |-> props.initialData.results]

\* first request of the page: getServerSideProps, then Home mounts and its
\* effects run
Load ==
    /\ phase = "loading"
    /\ LET req == ServerRequest(url)
       IN \E resp \in Responses(req.page, req.params) :
            LET props == GetServerSideProps(url, resp)
                st == MountState(props)
            IN  /\ phase' = "mounted"
                /\ status' = st.status
                /\ gender' = st.gender
                /\ searchTerm' = st.searchTerm
                /\ characters' = st.characters
                /\ currentPage' = props.currentPage
                /\ pages' = props.initialData.pages
                /\ isLoading' = FALSE
                /\ timers' = RunEffect(timers,
                       Closure(props.currentPage, st.status, st.gender,
                               st.searchTerm))
                /\ event' = [NoEvent EXCEPT
                               !.type = "ssr",
                               !.ok = resp.ok,
                               !.request = <<[q |-> req.q,
                                              params |-> req.params]>>]
    /\ UNCHANGED <<url, nav, inflight, newest, edits, fetches>>
    /\ UNCHANGED <<allCharacters, filteredCharacters>>

\* onChange of the status select: setStatus(e.target.value)
SetStatus(v) ==
    /\ phase = "mounted"
    /\ v # status
    /\ status' = v
    /\ timers' = RunEffect(timers, Closure(currentPage, v, gender, searchTerm))
    /\ edits < MaxEdits
    /\ edits' = edits + 1
    /\ event' = NoEvent
    /\ UNCHANGED <<phase, gender, searchTerm, currentPage, pages, characters,
                   isLoading, url, nav, inflight, newest, fetches>>
    /\ UNCHANGED <<allCharacters, filteredCharacters>>

\* onChange of the gender select: setGender(e.target.value)
SetGender(v) ==
    /\ phase = "mounted"
    /\ v # gender
    /\ gender' = v
    /\ timers' = RunEffect(timers, Closure(currentPage, status, v, searchTerm))
    /\ edits < MaxEdits
    /\ edits' = edits + 1
    /\ event' = NoEvent
    /\ UNCHANGED <<phase, status, searchTerm, currentPage, pages, characters,
                   isLoading, url, nav, inflight, newest, fetches>>
    /\ UNCHANGED <<allCharacters, filteredCharacters>>

\* onChange of the search input: setSearchTerm(e.target.value)
SetSearchTerm(v) ==
    /\ phase = "mounted"
    /\ v # searchTerm
    /\ searchTerm' = v
    /\ timers' = RunEffect(timers, Closure(currentPage, status, gender, v))
    /\ edits < MaxEdits
    /\ edits' = edits + 1
    /\ event' = NoEvent
    /\ UNCHANGED <<phase, status, gender, currentPage, pages, characters,
                   isLoading, url, nav, inflight, newest, fetches>>
    /\ UNCHANGED <<allCharacters, filteredCharacters>>

\* pagination buttons: handlePageChange(currentPage - 1 / + 1), rendered only
\* while not loading, disabled at page 1 and at the last page
HandlePageChange(newPage) ==
    /\ phase = "mounted"
    /\ ~isLoading
    /\ \/ newPage = currentPage - 1 /\ currentPage # 1
       \/ newPage = currentPage + 1 /\ currentPage # pages
    /\ newPage >= 0 - MaxBelow
    /\ newPage <= MaxPages + 1
    /\ nav' = <<PageQuery(url, newPage)>>
    /\ edits < MaxEdits
    /\ edits' = edits + 1
    /\ event' = [NoEvent EXCEPT !.type = "page"]
    /\ UNCHANGED <<phase, status, gender, searchTerm, currentPage, pages,
                   characters, isLoading, url, timers, inflight, newest,
                   fetches>>
    /\ UNCHANGED <<allCharacters, filteredCharacters>>

\* a mounted Home re-initialising its state from new props
StateResetFromProps(cur, props) ==
    [status |-> props.initialStatus, gender |-> props.initialGender,
     searchTerm |-> props.initialName, characters |-> props.initialData.results]

\* a mounted Home receiving new props: useState ignores its initialiser
StateAfterProps(cur, props) == cur

\* the full navigation of handlePageChange completes: getServerSideProps runs
\* for the target query and the mounted Home re-renders with the new props
Navigate ==
    /\ phase = "mounted"
    /\ nav # <<>>
    /\ LET req == ServerRequest(nav[1])
       IN \E resp \in Responses(req.page, req.params),
             changed \in RouterIdentityChanges :
            LET props == GetServerSideProps(nav[1], resp)
                st == StateAfterProps(
                          [status |-> status, gender |-> gender,
                           searchTerm |-> searchTerm,
                           characters |-> characters], props)
            IN  /\ status' = st.status
                /\ gender' = st.gender
                /\ searchTerm' = st.searchTerm
                /\ characters' = st.characters
                /\ currentPage' = props.currentPage
                /\ pages' = props.initialData.pages
                /\ timers' =
                     IF changed
                        \/ Closure(props.currentPage, st.status, st.gender,
                                   st.searchTerm)
                           # Closure(currentPage, status, gender, searchTerm)
                     THEN RunEffect(timers,
                              Closure(props.currentPage, st.status, st.gender,
                                      st.searchTerm))
                     ELSE timers
                /\ event' = [NoEvent EXCEPT
                               !.type = "ssr",
                               !.ok = resp.ok,
                               !.request = <<[q |-> req.q,
                                              params |-> req.params]>>]
    /\ url' = nav[1]
    /\ nav' = <<>>
    /\ UNCHANGED <<phase, isLoading, inflight, newest, edits, fetches>>
    /\ UNCHANGED <<allCharacters, filteredCharacters>>

\* handleFilter of an armed timer's closure runs up to the await of
\* getCharacters
HandleFilterStart(t) ==
    /\ t \in timers
    /\ Len(inflight) < MaxInFlight
    /\ timers' = timers \ {t}
    /\ isLoading' = IF phase = "mounted" THEN TRUE ELSE isLoading
    /\ LET req == [q |-> t.q, params |-> ParamsOf(t.q)]
       IN /\ inflight' = Append(inflight, req)
          /\ newest' = [outcome |-> "pending", q |-> t.q]
          /\ event' = NoEvent
    /\ UNCHANGED <<phase, status, gender, searchTerm, currentPage, pages,
                   characters, url, nav, edits>>
    /\ UNCHANGED <<allCharacters, filteredCharacters>>

\* the debounce wait of an armed timer elapses
TimerFire(t) ==
    /\ fetches < MaxFetches
    /\ fetches' = fetches + 1
    /\ HandleFilterStart(t)

RemoveAt(seq, i) == SubSeq(seq, 1, i - 1) \o SubSeq(seq, i + 1, Len(seq))

\* characters after the catch block of handleFilter
CharactersAfterFailure(cs) == cs

\* the awaited getCharacters of the i-th outstanding handleFilter call settles
Respond(i) ==
    /\ i \in 1..Len(inflight)
    /\ LET req == inflight[i]
           isNewest == i = Len(inflight) /\ newest.outcome = "pending"
       IN \E resp \in Responses(req.q.page, req.params),
             changed \in RouterIdentityChanges :
            /\ inflight' = RemoveAt(inflight, i)
            /\ newest' = IF isNewest
                         THEN [newest EXCEPT
                                 !.outcome = IF resp.ok THEN "ok" ELSE "fail"]
                         ELSE newest
            \* state setters of an unmounted component change nothing
            /\ isLoading' = IF phase = "mounted" THEN FALSE ELSE isLoading
            /\ event' = [NoEvent EXCEPT !.type = "response", !.ok = resp.ok,
                            !.newest = isNewest, !.push = resp.ok,
                            !.request = <<req>>]
            /\ IF resp.ok
               THEN /\ characters' = IF phase = "mounted" THEN resp.results
                                     ELSE characters
                    /\ url' = PushQuery(req.q)
                    /\ nav' = <<>>
                    /\ timers' =
                         IF phase = "mounted" /\ changed
                         THEN RunEffect(timers,
                                  Closure(currentPage, status, gender,
                                          searchTerm))
                         ELSE timers
               ELSE /\ characters' = IF phase = "mounted"
                                     THEN CharactersAfterFailure(characters)
                                     ELSE characters
                    /\ UNCHANGED <<url, nav, timers>>
    /\ UNCHANGED <<phase, status, gender, searchTerm, currentPage, pages,
                   edits, fetches>>
    /\ UNCHANGED <<allCharacters, filteredCharacters>>

\* Home unmounts: the effect cleanup of line 397 runs
Unmount ==
    /\ phase = "mounted"
    /\ phase' = "disposed"
    /\ timers' = Cancel(timers)
    /\ nav' = <<>>
    /\ event' = NoEvent
    /\ UNCHANGED <<status, gender, searchTerm, currentPage, pages, characters,
                   isLoading, url, inflight, newest, edits, fetches>>
    /\ UNCHANGED <<allCharacters, filteredCharacters>>

Next ==
    \/ Load
    \/ \E v \in StatusOptions : SetStatus(v)
    \/ \E v \in GenderOptions : SetGender(v)
    \/ \E v \in SearchTerms : SetSearchTerm(v)
    \/ \E d \in {-1, 1} : HandlePageChange(currentPage + d)
    \/ Navigate
    \/ \E t \in timers : TimerFire(t)
    \/ \E i \in 1..MaxInFlight : Respond(i)
    \/ Unmount

Spec == Init /\ [][Next]_vars

----------------------------------------------------------------------------
(* The Controller left to itself: timers elapse and requests are answered *)

\* the debounce wait elapses, however many fetches went before
TimerFireAgain(t) ==
    /\ fetches' = IF fetches < MaxFetches THEN fetches + 1 ELSE fetches
    /\ HandleFilterStart(t)

LiveNext ==
    \/ Load
    \/ \E v \in StatusOptions : SetStatus(v)
    \/ \E t \in timers : TimerFireAgain(t)
    \/ \E i \in 1..MaxInFlight : Respond(i)

\* the page loads, an armed timer elapses and a request is answered
LiveSpec ==
    /\ Init
    /\ [][LiveNext]_vars
    /\ WF_vars(Load)
    /\ WF_vars(\E t \in timers : TimerFireAgain(t))
    /\ WF_vars(\E i \in 1..MaxInFlight : Respond(i))

----------------------------------------------------------------------------
(* Reloading the page at the URL the Controller wrote *)

\* the Controller states whose URL is written and read back
WrittenStates ==
    [page : 1..MaxPages, status : StatusOptions, gender : GenderOptions,
     name : SearchTerms]

\* the query strings handleFilter writes, and the same without a page key
RoundTripUrls ==
    {PushQuery(q) : q \in WrittenStates}
    \cup {MkQuery(<<>>, s, g, n) : s \in Opt(StatusOptions \ {""}),
                                  g \in Opt(GenderOptions \ {""}),
                                  n \in Opt(SearchTerms \ {""})}

RoundTripInit ==
    /\ phase = "loading"
    /\ url \in RoundTripUrls
    /\ status = ""
    /\ gender = ""
    /\ searchTerm = ""
    /\ currentPage = 1
    /\ pages = 0
    /\ characters = <<>>
    /\ isLoading = FALSE
    /\ nav = <<>>
    /\ timers = {}
    /\ inflight = <<>>
    /\ newest = [outcome |-> "none", q |-> Closure(1, "", "", "")]
    /\ edits = 0
    /\ fetches = 0
    /\ event = NoEvent
    /\ allCharacters = <<>>
    /\ filteredCharacters = <<>>

\* the visitor reloads the page: the document is requested again for the
\* current URL, and the old Home instance and its pending work are gone
Reload ==
    /\ phase = "mounted"
    /\ phase' = "loading"
    /\ status' = ""
    /\ gender' = ""
    /\ searchTerm' = ""
    /\ currentPage' = 1
    /\ pages' = 0
    /\ characters' = <<>>
    /\ isLoading' = FALSE
    /\ nav' = <<>>
    /\ timers' = {}
    /\ inflight' = <<>>
    /\ newest' = [outcome |-> "none", q |-> Closure(1, "", "", "")]
    /\ edits' = 0
    /\ fetches' = 0
    /\ event' = NoEvent
    /\ UNCHANGED url
    /\ UNCHANGED <<allCharacters, filteredCharacters>>

RoundTripNext ==
    \/ Load
    \/ \E t \in timers : TimerFire(t)
    \/ \E i \in 1..MaxInFlight : Respond(i)
    \/ Reload

RoundTripSpec == RoundTripInit /\ [][RoundTripNext]_vars
----------------------------------------------------------------------------
(* Properties *)

CurrentClosure == Closure(currentPage, status, gender, searchTerm)

FiltersEdited ==
    status' # status \/ gender' # gender \/ searchTerm' # searchTerm

\* C1: once every issued fetch has been answered and the most recently issued
\* one succeeded, the displayed result set is that of the most recently
\* issued fetch, whatever the order in which the responses arrived.
C1_LastIssuedWins ==
    (phase = "mounted" /\ inflight = <<>> /\ newest.outcome = "ok")
        => characters = ResultsOf(ParamsOf(newest.q))

\* C2: a filter edit issues no fetch itself and leaves exactly one armed
\* timer, whose closure holds the status, gender, name and page held after
\* that edit; a fetch is issued only by that timer elapsing, one fetch per
\* elapsed window, with the values held after the last edit, and no timer
\* stays armed behind it.
C2_OneFetchPerWindow ==
    [][/\ (phase = "mounted" /\ FiltersEdited)
            => /\ fetches' = fetches
               /\ inflight' = inflight
               /\ timers' = {[q |-> CurrentClosure', current |-> TRUE]}
       /\ (fetches' # fetches)
            => /\ fetches' = fetches + 1
               /\ timers = {[q |-> CurrentClosure, current |-> TRUE]}
               /\ timers' = {}
               /\ inflight' = Append(inflight,
                                [q |-> CurrentClosure,
                                 params |-> ParamsOf(CurrentClosure)])]_vars

\* C2 witness: two filter edits inside one window, then the single fetch,
\* carrying the values of the last edit
C2_Witness ==
    /\ phase = "mounted"
    /\ edits = 2
    /\ fetches = 1
    /\ timers = {}
    /\ gender = "male"
    /\ searchTerm = "rick"
    /\ Len(inflight) = 1
    /\ inflight[1].q = CurrentClosure

\* C3: the request armed by an edit of status, gender or name carries page 1.
C3_FilterEditResetsPage ==
    [][(phase = "mounted" /\ FiltersEdited)
            => \A t \in timers' : t.q.page = 1]_vars

\* C4: after disposal no step changes results, isLoading or the URL.
C4_NoMutationAfterDispose ==
    [][phase = "disposed"
            => /\ characters' = characters
               /\ isLoading' = isLoading
               /\ url' = url]_vars

\* C5: after a failed fetch the displayed result set is empty and isLoading
\* is false.
C5_FailureClearsResults ==
    (phase = "mounted" /\ event.type = "response" /\ ~event.ok)
        => (characters = <<>> /\ ~isLoading)

\* C6: no fetch is issued before the first setter call.
C6_NoFetchBeforeFirstSetter ==
    edits = 0 => fetches = 0

\* a page-button click, or the completion of the navigation it started
PageStep ==
    /\ phase = "mounted"
    /\ \/ nav' # nav /\ nav' # <<>>
       \/ nav # <<>> /\ event'.type = "ssr"

\* C7: a page change leaves status, gender and name as they were, and the
\* request it arms carries those same values with the new page.
C7_PageChangeKeepsFilters ==
    [][PageStep
            => /\ status' = status
               /\ gender' = gender
               /\ searchTerm' = searchTerm
               /\ (timers' # timers
                     => timers' = {[q |-> Closure(currentPage', status, gender,
                                                  searchTerm),
                                    current |-> TRUE]})]_vars

\* C7 witness: a page change completed while the Controller holds a status
\* the URL does not, and the armed request has that status and the new page
C7_Witness ==
    /\ phase = "mounted"
    /\ event.type = "ssr"
    /\ edits = 2
    /\ status = "alive"
    /\ "status" \notin DOMAIN url
    /\ currentPage = 2
    /\ timers = {[q |-> Closure(2, "alive", gender, searchTerm),
                  current |-> TRUE]}

\* the outgoing query holds page, holds each non-empty filter of the call
\* with its value, and holds no other key
OmitsEmpty(req) ==
    /\ "page" \in DOMAIN req.params
    /\ req.params["page"] = ToString(req.q.page)
    /\ \A k \in DOMAIN req.params \ {"page"} : req.params[k] # ""
    /\ ("status" \in DOMAIN req.params) <=> (req.q.status # "")
    /\ ("gender" \in DOMAIN req.params) <=> (req.q.gender # "")
    /\ ("name" \in DOMAIN req.params) <=> (req.q.name # "")
    /\ \A k \in DOMAIN req.params \ {"page"} :
          req.params[k] = (CASE k = "status" -> req.q.status
                             [] k = "gender" -> req.q.gender
                             [] OTHER -> req.q.name)

\* C8: every request sent by getCharacters, from the client or from
\* getServerSideProps, omits the empty filter fields and carries page.
C8_EmptyFiltersOmitted ==
    /\ \A i \in 1..Len(inflight) : OmitsEmpty(inflight[i])
    /\ \A i \in 1..Len(event.request) : OmitsEmpty(event.request[i])

\* C8 witness: a client request with one filter set and two empty
C8_Witness ==
    /\ Len(inflight) > 0
    /\ inflight[1].q.status = ""
    /\ inflight[1].q.gender = ""
    /\ inflight[1].q.name = "rick"
    /\ DOMAIN inflight[1].params = {"page", "name"}

\* C9: page is within [1, pageCount] whenever pageCount > 0, and no request
\* is sent for a page below 1.
C9_PageInRange ==
    /\ (phase = "mounted" /\ pages > 0)
          => (1 <= currentPage /\ currentPage <= pages)
    /\ \A i \in 1..Len(inflight) : inflight[i].q.page >= 1
    /\ \A i \in 1..Len(event.request) : event.request[i].q.page >= 1

\* C10: a response handled by the live Controller writes the URL exactly
\* when it succeeds and belongs to the most recently issued fetch (Applied,
\* neither Failed nor superseded), and then the URL is the query of that
\* request with its empty fields omitted.
C10_UrlWrittenOnlyOnApplied ==
    (phase = "mounted" /\ event.type = "response")
        => /\ event.push <=> (event.ok /\ event.newest)
           /\ event.push => url = PushQuery(event.request[1].q)
\* the hydrated state is the one whose written query string the URL is, and
\* keys absent from the URL hydrate to page 1 and empty filters
HydratesUrl ==
    /\ \A q \in WrittenStates : url = PushQuery(q) => CurrentClosure = q
    /\ "page" \notin DOMAIN url => currentPage = 1
    /\ "status" \notin DOMAIN url => status = ""
    /\ "gender" \notin DOMAIN url => gender = ""
    /\ "name" \notin DOMAIN url => searchTerm = ""

ResponseStep ==
    /\ phase = "mounted"
    /\ event'.type = "response"
    /\ Len(inflight') < Len(inflight)

\* C12: when a status edit is followed by a page click inside the same
\* debounce window, the fetch issued when the window elapses carries the
\* edited status and the clicked page.
C12_LastSetterGovernsPage ==
    [][(/\ phase = "mounted"
        /\ event.type = "page"
        /\ nav # <<>>
        /\ fetches = 0
        /\ edits = 2
        /\ status = "alive"
        /\ "status" \notin DOMAIN url
        /\ Len(inflight') > Len(inflight))
            => /\ inflight'[Len(inflight')].q.status = status
               /\ inflight'[Len(inflight')].q.page
                     = ParseInt(nav[1]["page"])]_vars

\* C13: the response to a superseded fetch changes neither results nor
\* isLoading, so isLoading is true for as long as the newest fetch is in
\* flight.
C13_SupersededResponseIgnored ==
    [][/\ (ResponseStep /\ ~event'.newest)
            => (characters' = characters /\ isLoading' = isLoading)
       /\ (phase' = "mounted" /\ newest'.outcome = "pending")
            => isLoading']_vars

\* C14: isLoading is true as soon as a filter setter has been called.
C14_LoadingAtFirstEdit ==
    [][(phase = "mounted" /\ FiltersEdited) => isLoading']_vars

\* C15: a settled response, applied or failed, arms no debounce timer.
C15_NoFetchAfterSettling ==
    [][ResponseStep => timers' = timers]_vars

\* C16: from disposal on no debounce timer is armed and no fetch is issued.
C16_UnmountCancelsTimer ==
    [][phase' = "disposed"
            => /\ timers' = {}
               /\ fetches' = fetches
               /\ Len(inflight') <= Len(inflight)]_vars

\* C16 witness: disposed while the timer armed by an edit had not fired
C16_Witness ==
    /\ phase = "disposed"
    /\ edits = 1
    /\ fetches = 0
    /\ status # QueryString(url, "status", "")
    /\ timers = {}

\* C17: at most one debounce timer is armed.
C17_SingleTimer == Cardinality(timers) <= 1

\* C17 witness: the one armed timer after two edits inside one window, each
\* of which re-created the debounced function
C17_Witness ==
    /\ phase = "mounted"
    /\ edits = 2
    /\ fetches = 0
    /\ status = "alive"
    /\ gender = "male"
    /\ timers = {[q |-> CurrentClosure, current |-> TRUE]}

\* C19: when the Controller is idle and its newest fetch was applied, the
\* URL is the query of the current status, gender, name and page.
C19_UrlMatchesStateWhenIdle ==
    (/\ phase = "mounted"
     /\ timers = {}
     /\ inflight = <<>>
     /\ nav = <<>>
     /\ event.type = "response"
     /\ newest.outcome = "ok")
        => url = PushQuery(CurrentClosure)
\* no debounce timer armed, no response outstanding, not loading
Idle ==
    /\ phase = "mounted"
    /\ ~isLoading
    /\ timers = {}
    /\ inflight = <<>>

\* C18: once the user has stopped editing and every request is answered,
\* the Controller comes to rest: not loading, nothing pending or in flight.
C18_EveryCycleResolves == <>[]Idle

(***************************************************************************)
(* The Home component that filters on the client (index.tsx:52-114).  It   *)
(* fetches by name only and narrows the fetched list in the browser.       *)
(* Strings are sequences of characters here, so that toLowerCase and       *)
(* includes are computed and not assumed.                                  *)
(***************************************************************************)
UpperChars == <<"A", "B", "C", "D", "E", "F", "G", "H", "I", "J", "K", "L",
                "M", "N", "O", "P", "Q", "R", "S", "T", "U", "V", "W", "X",
                "Y", "Z">>

LowerChars == <<"a", "b", "c", "d", "e", "f", "g", "h", "i", "j", "k", "l",
                "m", "n", "o", "p", "q", "r", "s", "t", "u", "v", "w", "x",
                "y", "z">>

\* String.prototype.toLowerCase on the letters above
ToLowerCase(str) ==
    [i \in 1..Len(str) |->
        IF \E k \in DOMAIN UpperChars : UpperChars[k] = str[i]
        THEN LowerChars[CHOOSE k \in DOMAIN UpperChars : UpperChars[k] = str[i]]
        ELSE str[i]]

\* String.prototype.includes
Includes(str, sub) ==
    \E i \in 0..(Len(str) - Len(sub)) : SubSeq(str, i + 1, i + Len(sub)) = sub

\* entities as the catalog returns them
Rick  == [id |-> 1, name |-> <<"R", "i", "c", "k">>,
          status |-> <<"A", "l", "i", "v", "e">>,
          gender |-> <<"M", "a", "l", "e">>]

Morty == [id |-> 2, name |-> <<"M", "o", "r", "t", "y">>,
          status |-> <<"A", "l", "i", "v", "e">>,
          gender |-> <<"M", "a", "l", "e">>]

Rita  == [id |-> 3, name |-> <<"R", "i", "t", "a">>,
          status |-> <<"D", "e", "a", "d">>,
          gender |-> <<"F", "e", "m", "a", "l", "e">>]

\* results lists the catalog may answer with
FetchedLists == {<<Rick, Morty, Rita>>, <<Rita, Rick>>, <<Morty>>}

\* values of the status and gender selects, and what the visitor may type
ClientStatusOptions == {<<>>, <<"a", "l", "i", "v", "e">>, <<"d", "e", "a", "d">>}

ClientGenderOptions == {<<>>, <<"m", "a", "l", "e">>,
                        <<"f", "e", "m", "a", "l", "e">>}

ClientSearchTerms == {<<>>, <<"r", "i">>, <<"R", "I">>, <<"t">>}

\* applyFilters with the toLowerCase calls left out
ApplyFiltersCaseSensitive(all, st, g, term) ==
    LET ByStatus(char) == char.status = st
        ByGender(char) == char.gender = g
        ByName(char)   == Includes(char.name, term)
        r1 == IF st # <<>> THEN SelectSeq(all, ByStatus) ELSE all
        r2 == IF g # <<>> THEN SelectSeq(r1, ByGender) ELSE r1
    IN IF term # <<>> THEN SelectSeq(r2, ByName) ELSE r2

\* applyFilters, lines 67-87: the value handed to setFilteredCharacters
ApplyFilters(all, st, g, term) ==
    LET ByStatus(char) == ToLowerCase(char.status) = ToLowerCase(st)
        ByGender(char) == ToLowerCase(char.gender) = ToLowerCase(g)
        ByName(char)   == Includes(ToLowerCase(char.name), ToLowerCase(term))
        r1 == IF st # <<>> THEN SelectSeq(all, ByStatus) ELSE all
        r2 == IF g # <<>> THEN SelectSeq(r1, ByGender) ELSE r1
    IN IF term # <<>> THEN SelectSeq(r2, ByName) ELSE r2

\* the first render and its effects: state from initialData (the server's
\* getCharacters(1), or the empty fallback), applyFilters has run, and the
\* debounce effect has armed its first timer
ClientInit ==
    /\ phase = "mounted"
    /\ allCharacters \in FetchedLists \cup {<<>>}
    /\ status = <<>>
    /\ gender = <<>>
    /\ searchTerm = <<>>
    /\ filteredCharacters = ApplyFilters(allCharacters, status, gender, searchTerm)
    /\ isLoading = FALSE
    /\ timers = Arm({}, [name |-> searchTerm])
    /\ inflight = <<>>
    /\ currentPage = 1
    /\ pages = 0
    /\ characters = <<>>
    /\ url = <<>>
    /\ nav = <<>>
    /\ newest = [outcome |-> "none", q |-> <<>>]
    /\ edits = 0
    /\ fetches = 0
    /\ event = NoEvent

ClientUnused == <<phase, currentPage, pages, characters, url, nav, newest,
                  edits, fetches, event>>

\* onChange of the status select; allCharacters/status/gender/searchTerm are
\* the dependencies of applyFilters, so its effect re-runs, while the
\* debounce effect (dependencies searchTerm, debouncedFilter) does not
ClientSetStatus(v) ==
    /\ v # status
    /\ status' = v
    /\ filteredCharacters' = ApplyFilters(allCharacters, v, gender, searchTerm)
    /\ UNCHANGED <<gender, searchTerm, allCharacters, isLoading, timers,
                   inflight>>
    /\ UNCHANGED ClientUnused

\* onChange of the gender select
ClientSetGender(v) ==
    /\ v # gender
    /\ gender' = v
    /\ filteredCharacters' = ApplyFilters(allCharacters, status, v, searchTerm)
    /\ UNCHANGED <<status, searchTerm, allCharacters, isLoading, timers,
                   inflight>>
    /\ UNCHANGED ClientUnused

\* onChange of the search input: both effects re-run
ClientSetSearchTerm(v) ==
    /\ v # searchTerm
    /\ searchTerm' = v
    /\ filteredCharacters' = ApplyFilters(allCharacters, status, gender, v)
    /\ timers' = RunEffect(timers, [name |-> v])
    /\ UNCHANGED <<status, gender, allCharacters, isLoading, inflight>>
    /\ UNCHANGED ClientUnused

\* the 300 ms elapse: handleFilter sets isLoading and calls
\* getCharacters(1, { name: searchTerm }) with the term of its closure
ClientTimerFire(t) ==
    /\ t \in timers
    /\ Len(inflight) < MaxInFlight
    /\ timers' = timers \ {t}
    /\ isLoading' = TRUE
    /\ inflight' = Append(inflight, [page |-> 1, name |-> t.q.name])
    /\ UNCHANGED <<status, gender, searchTerm, allCharacters,
                   filteredCharacters>>
    /\ UNCHANGED ClientUnused

\* the awaited getCharacters settles: the fetched list on success, the empty
\* list in the catch block, isLoading false in finally; then applyFilters
ClientRespond(i) ==
    /\ i \in 1..Len(inflight)
    /\ inflight' = RemoveAt(inflight, i)
    /\ \E ok \in BOOLEAN, results \in FetchedLists :
          allCharacters' = IF ok THEN results ELSE <<>>
    /\ isLoading' = FALSE
    /\ filteredCharacters' = ApplyFilters(allCharacters', status, gender,
                                          searchTerm)
    /\ UNCHANGED <<status, gender, searchTerm, timers>>
    /\ UNCHANGED ClientUnused

ClientNext ==
    \/ \E v \in ClientStatusOptions : ClientSetStatus(v)
    \/ \E v \in ClientGenderOptions : ClientSetGender(v)
    \/ \E v \in ClientSearchTerms : ClientSetSearchTerm(v)
    \/ \E t \in timers : ClientTimerFire(t)
    \/ \E i \in 1..MaxInFlight : ClientRespond(i)

ClientSpec == ClientInit /\ [][ClientNext]_vars

\* two characters that differ at most in case
SameLetter(x, y) ==
    \/ x = y
    \/ \E k \in DOMAIN UpperChars : {x, y} = {UpperChars[k], LowerChars[k]}

SameIgnoringCase(a, b) ==
    /\ Len(a) = Len(b)
    /\ \A i \in 1..Len(a) : SameLetter(a[i], b[i])

ContainsIgnoringCase(str, sub) ==
    \E i \in 0..(Len(str) - Len(sub)) :
        \A k \in 1..Len(sub) : SameLetter(str[i + k], sub[k])

\* the entity satisfies the selection; an empty selection constrains nothing
Matches(char, st, g, term) ==
    /\ st = <<>> \/ SameIgnoringCase(char.status, st)
    /\ g = <<>> \/ SameIgnoringCase(char.gender, g)
    /\ term = <<>> \/ ContainsIgnoringCase(char.name, term)

\* out is the sub-sequence of all, in order, of exactly the matching entities
IsMatchingSubSequence(out, all, st, g, term) ==
    LET idx == {i \in 1..Len(all) : Matches(all[i], st, g, term)}
    IN /\ Len(out) = Cardinality(idx)
       /\ \A i \in idx : out[Cardinality({j \in idx : j <= i})] = all[i]

\* C20: in the client-filtering variant, after every step the displayed list
\* is the in-order sub-sequence of the stored fetched list whose entities
\* match status and gender case-insensitively and whose name contains the
\* search term case-insensitively; and a change of status or gender alone
\* issues no request and leaves the debounce timer as it was.
C20_ClientFilter ==
    [][/\ IsMatchingSubSequence(filteredCharacters', allCharacters', status',
                                gender', searchTerm')
       /\ ((status' # status \/ gender' # gender) /\ searchTerm' = searchTerm)
            => (timers' = timers /\ inflight' = inflight)]_vars

\* "RI" was typed and "alive" selected while the timer of that edit is still
\* pending: of Rick, Morty and Rita only Rick is displayed
C20_Witness ==
    /\ allCharacters = <<Rick, Morty, Rita>>
    /\ status = <<"a", "l", "i", "v", "e">>
    /\ searchTerm = <<"R", "I">>
    /\ filteredCharacters = <<Rick>>
    /\ timers = {[q |-> [name |-> searchTerm], current |-> TRUE]}
    /\ inflight = <<>>
====
